---- MODULE Spec2Model ----
(***************************************************************************)
(* The realtime fan-out gateway of src/src/index.ts: the WebSocket server  *)
(* wss, its 'message' listener, the three handlers it dispatches to        *)
(* (handleReaction, handleTypingEvent, handleMessage) and the 'messages'   *)
(* collection of the record store they await.                              *)
(*                                                                         *)
(* A handler is an async function: it runs without interruption up to an   *)
(* await on the store, the store performs the operation at some later      *)
(* moment, and the continuation runs at a still later moment.  Each of the *)
(* three is one step of the model, so that everything the event loop can   *)
(* schedule between them is a behaviour of Spec.                           *)
(***************************************************************************)
EXTENDS Integers, Sequences, FiniteSets, TLC

\* ------------------------------------------------------------- bounds ---
NumConns  == 2        \* connections that may ever be accepted
MaxFrames == 2        \* inbound frames received in one behaviour

Conns == 1..NumConns

\* -------------------------------------------------------- JSON values ---
Undefined == "undefined"      \* a property the frame does not carry
Null      == "null"           \* JSON null
EmptyStr  == ""               \* the empty string, falsy like undefined

\* !x of JavaScript on the values a frame field can hold
Falsy(x) == x \in {Undefined, Null, EmptyStr}

\* ------------------------------------------------------ stored messages --
StoredIds  == {"m1", "m2"}    \* rows of 'messages' that exist
UnknownId  == "m9"            \* an id no row has

Entry(e, u, n) == [emoji |-> e, userId |-> u, count |-> n]

\* the reactions column of a row: SQL NULL, or a JSON array of entries
Column(isNull, items) == [null |-> isNull, items |-> items]
NullColumn == Column(TRUE, <<>>)
Reactions(items) == Column(FALSE, items)

\* the reactions columns the store may hold before the gateway starts
InitialStores ==
  { [m \in StoredIds |-> IF m = "m1" THEN r1 ELSE r2] :
      r1 \in {NullColumn, Reactions(<<Entry("up", "u1", 1)>>)},
      r2 \in {Reactions(<<Entry("heart", "u2", 2)>>)} }

\* -------------------------------------------------------- inbound frames --
Msg(t, mid, r, s, c, a, txt) ==
  [type |-> t, messageId |-> mid, reaction |-> r, senderId |-> s,
   chat_id |-> c, author_id |-> a, content |-> txt]

\* stands for "no parsed message" in the record of a step
NoMsg == Msg(Undefined, Undefined, Undefined, Undefined, Undefined, Undefined, Undefined)

\* the (emoji, userId) pairs frames react with: two emojis of one user, one
\* emoji of two users
FramePairs == {<<"up", "u1">>, <<"heart", "u1">>, <<"up", "u2">>}

ReactionMsgs ==
  { Msg("reaction", "m1", p[1], p[2], Undefined, Undefined, Undefined) : p \in FramePairs }
  \cup { Msg("reaction", mid, "up", "u1", Undefined, Undefined, Undefined) :
      mid \in {"m2", Undefined, UnknownId} }

TypingMsgs ==
  { Msg("typing_started", Undefined, Undefined, "u1", "c1", Undefined, Undefined),
    Msg("typing_stopped", Undefined, Undefined, "u1", "c1", Undefined, Undefined),
    Msg("typing_started", Undefined, Undefined, Undefined, "c1", Undefined, Undefined),
    Msg("typing_stopped", Undefined, Undefined, "u1", EmptyStr, Undefined, Undefined) }

ChatMsgs ==
  { Msg(t, Undefined, Undefined, Undefined, "c1", "u1", "hi") : t \in {"chat", Undefined} }

\* rawData: text that is no JSON, the JSON text null, or a JSON object
RawFrames ==
  {[text |-> "garbage", obj |-> NoMsg], [text |-> "null", obj |-> NoMsg]}
  \cup { [text |-> "object", obj |-> m] : m \in ReactionMsgs \cup TypingMsgs \cup ChatMsgs }

\* JSON.parse(rawData): throws a SyntaxError on text that is no JSON, yields
\* null for the text null, and the object otherwise
JSONparse(raw) ==
  [threw |-> raw.text = "garbage", isNull |-> raw.text = "null",
   value |-> IF raw.text = "object" THEN raw.obj ELSE NoMsg]

\* ------------------------------------------------------- outbound frames --
ErrorFrame(text) == [error |-> text]
InvalidFormat    == ErrorFrame("Invalid message format")
TypingRequired   == ErrorFrame("Sender ID and Chat ID are required for typing events")
IdRequired       == ErrorFrame("Message ID is required for reactions")
FetchFailed      == ErrorFrame("Failed to fetch message")
UpdateFailed     == ErrorFrame("Failed to update reactions")
ProcessFailed    == ErrorFrame("Failed to process message")

IsError(f) == "error" \in DOMAIN f

TypingFrame(m) == [type |-> m.type, senderId |-> m.senderId, chat_id |-> m.chat_id]
ReactionUpdate(mid, rs) == [type |-> "reactionUpdate", messageId |-> mid, reactions |-> rs]

\* ----------------------------------------------------------------- state --
VARIABLES
  readyState,   \* per connection: "NONE" (not yet accepted), "OPEN", "CLOSED"
  handlers,     \* the invocations of the 'message' listener suspended at an await
  messages,     \* store: reactions column of each row of 'messages'
  rows,         \* store: the rows handleMessage inserted, in insertion order
  nframes,      \* frames received so far; the next handler's id is nframes + 1
  last,         \* what the step just taken did (sends, store request, store write)
  version,      \* history: successful reaction updates written per row
  applied,      \* history: successful reaction updates per row and (emoji, userId)
  raced,        \* history: rows that took a write based on an outdated read
  store0,       \* history: the reactions columns at start
  writer        \* history: per row, the connection whose update was written last

vars == <<readyState, handlers, messages, rows, nframes, last, version, applied, raced, store0, writer>>

OpenClients == {c \in Conns : readyState[c] = "OPEN"}

NoOut == [c \in Conns |-> <<>>]

\* ws.send on a socket that is not open, as old releases of the library did it
sendThrows_WhenNotOpen(ws) == readyState[ws] # "OPEN"

\* ws.send(data) with no callback on a socket whose readyState is not OPEN: the
\* library (ws 8, the release that exports WebSocket by name, line 3) counts the
\* bytes as buffered and returns; it throws only while CONNECTING, a state no
\* socket handed to wss.on('connection') is in
sendThrows(ws) == FALSE

\* The record of one step: the listener invocation id it belongs to, its
\* connection ws, the text and the parsed message of its frame, the frames
\* each connection was sent (out), the connections send() was called on
\* (calls), the store request issued, the connections open during the step
\* (clients), the reactions columns before it, and for a store write or a
\* reaction broadcast the column the handler wrote (data).  threw: a send of
\* the step threw; in a handler the throw lands in the catch of the listener,
\* whose own ws.send throws again, and the listener's promise rejects with
\* nothing to handle it.
Step(op, id, ws, text, msg, out, calls, request) ==
  [op |-> op, id |-> id, ws |-> ws, text |-> text, msg |-> msg, out |-> out,
   calls |-> calls, request |-> request, clients |-> OpenClients,
   before |-> messages, stale |-> FALSE, data |-> NullColumn, at |-> "none", res |-> "none",
   threw |-> \E c \in calls : sendThrows(c), wroteVer |-> 0]

\* the record of a continuation: at is the await it resumed from, res the
\* answer, wroteVer the number of the write the store made for it (0: none)
Resumed(h, op, out, calls, request) ==
  [Step(op, h.id, h.ws, "object", h.msg, out, calls, request)
     EXCEPT !.at = h.pc, !.res = h.res, !.data = h.wrote, !.wroteVer = h.wroteVer]

\* a step of the store or of a peer that sends nothing and writes nothing
Quiet == [op |-> "quiet", id |-> 0, ws |-> 0, text |-> "none", msg |-> NoMsg, out |-> NoOut,
          calls |-> {}, request |-> "none", clients |-> {},
          before |-> [m \in StoredIds |-> NullColumn], stale |-> FALSE, data |-> NullColumn,
          at |-> "none", res |-> "none", threw |-> FALSE, wroteVer |-> 0]

\* the process is alive: no rejection of the listener's promise went unhandled
running == ~last.threw

Init ==
  /\ readyState = [c \in Conns |-> "NONE"]
  /\ handlers = {}
  /\ store0 \in InitialStores
  /\ messages = store0
  /\ rows = <<>>
  /\ nframes = 0
  /\ version = [m \in StoredIds |-> 0]
  /\ applied = [m \in StoredIds |-> [p \in FramePairs |-> 0]]
  /\ raced = [m \in StoredIds |-> FALSE]
  /\ writer = [m \in StoredIds |-> 0]
  /\ last = Quiet

\* ------------------------------------------------------------- sending ---
\* an error reply that goes through the broadcast loop instead of ws.send
SendTo_Everyone(ws, frame) == [c \in Conns |-> IF readyState[c] = "OPEN" THEN <<frame>> ELSE <<>>]

\* ws.send(frame) with no readyState check: the frame reaches ws only if ws is open
SendTo(ws, frame) == [c \in Conns |-> IF c = ws /\ readyState[c] = "OPEN" THEN <<frame>> ELSE <<>>]

\* wss.clients.forEach(client => { if (client.readyState === OPEN) client.send(frame) })
BroadcastAll(frame) == [c \in Conns |-> IF readyState[c] = "OPEN" THEN <<frame>> ELSE <<>>]

\* the loop of handleTypingEvent without the guard client !== ws
BroadcastOthers_SenderToo(ws, frame) ==
  [c \in Conns |-> IF readyState[c] = "OPEN" THEN <<frame>> ELSE <<>>]

\* the same loop with the guard client !== ws
BroadcastOthers(ws, frame) ==
  [c \in Conns |-> IF c # ws /\ readyState[c] = "OPEN" THEN <<frame>> ELSE <<>>]

\* ------------------------------------------------------ reaction merge ---
RECURSIVE findIndexFrom(_, _, _, _)
findIndexFrom(rs, e, u, i) ==
  IF i > Len(rs) THEN -1
  ELSE IF rs[i].emoji = e /\ rs[i].userId = u THEN i
  ELSE findIndexFrom(rs, e, u, i + 1)

\* findIndex with a predicate that compares the emoji alone
findIndex_EmojiOnly(rs, e, u) ==
  IF \E i \in 1..Len(rs) : rs[i].emoji = e
    THEN CHOOSE i \in 1..Len(rs) : rs[i].emoji = e /\ \A j \in 1..(i - 1) : rs[j].emoji # e
    ELSE -1

\* findIndex with a predicate no entry satisfies
findIndex_NoMatch(rs, e, u) == -1

\* updatedReactions.findIndex(r => r.emoji === reaction && r.userId === senderId)
findIndex(rs, e, u) == findIndexFrom(rs, e, u, 1)

\* messageData.reactions || []
OrEmpty(column) == IF column.null THEN <<>> ELSE column.items

\* the merge with the increment left out
updatedReactions_NoIncrement(reactions, e, u) ==
  LET rs == OrEmpty(reactions)
      reactionIndex == findIndex(rs, e, u)
  IN IF reactionIndex # -1 THEN rs ELSE Append(rs, Entry(e, u, 1))

\* the merge starting a new list when the pair has no entry
updatedReactions_NewList(reactions, e, u) ==
  LET rs == OrEmpty(reactions)
      reactionIndex == findIndex(rs, e, u)
  IN IF reactionIndex # -1
       THEN [rs EXCEPT ![reactionIndex].count = @ + 1]
       ELSE <<Entry(e, u, 1)>>

\* lines 151-158: increment the matching entry, or push a new one with count 1
updatedReactions(reactions, e, u) ==
  LET rs == OrEmpty(reactions)
      reactionIndex == findIndex(rs, e, u)
  IN IF reactionIndex # -1
       THEN [rs EXCEPT ![reactionIndex].count = @ + 1]
       ELSE Append(rs, Entry(e, u, 1))

\* ------------------------------------------------------------ handlers ---
\* a suspended invocation: where it waits (pc), the store's answer once it is
\* there (res), the column it fetched or computed (data), the version of the
\* row it read, the column the store wrote for it and the version that write made
Handler(id, ws, msg, pc) ==
  [id |-> id, ws |-> ws, msg |-> msg, pc |-> pc, res |-> "pending", data |-> NullColumn,
   readVer |-> 0, wrote |-> NullColumn, wroteVer |-> 0]

\* a typing handler that persists the event before relaying it
handleTypingEvent_Persisting(id, ws, msg) ==
  /\ handlers' = handlers \cup {Handler(id, ws, msg, "insert")}
  /\ last' = Step("message", id, ws, "object", msg, NoOut, {}, "insert")

\* a typing handler without the test of line 116
handleTypingEvent_NoCheck(id, ws, msg) ==
  /\ handlers' = handlers
  /\ last' = Step("typing", id, ws, "object", msg, BroadcastOthers(ws, TypingFrame(msg)),
                  OpenClients \ {ws}, "none")

\* handleTypingEvent: no await, so it ends within the step that received the frame
handleTypingEvent(id, ws, msg) ==
  /\ handlers' = handlers
  /\ IF Falsy(msg.senderId) \/ Falsy(msg.chat_id)
       THEN last' = Step("typing_rejected", id, ws, "object", msg, SendTo(ws, TypingRequired), {ws}, "none")
       ELSE last' = Step("typing", id, ws, "object", msg, BroadcastOthers(ws, TypingFrame(msg)),
                         OpenClients \ {ws}, "none")

\* handleReaction up to its first await (the select)
handleReaction(id, ws, msg) ==
  IF Falsy(msg.messageId)
    THEN /\ handlers' = handlers
         /\ last' = Step("reaction_rejected", id, ws, "object", msg, SendTo(ws, IdRequired), {ws}, "none")
    ELSE /\ handlers' = handlers \cup {Handler(id, ws, msg, "select")}
         /\ last' = Step("reaction", id, ws, "object", msg, NoOut, {}, "select")

\* handleMessage up to its await (the insert)
handleMessage(id, ws, msg) ==
  /\ handlers' = handlers \cup {Handler(id, ws, msg, "insert")}
  /\ last' = Step("message", id, ws, "object", msg, NoOut, {}, "insert")

\* a dispatch whose second branch tests typing_started alone
handleWebSocketMessage_StartedOnly(id, ws, msg) ==
  IF msg.type = "reaction" THEN handleReaction(id, ws, msg)
  ELSE IF msg.type = "typing_started" THEN handleTypingEvent(id, ws, msg)
  ELSE handleMessage(id, ws, msg)

\* handleWebSocketMessage: dispatch on message.type
handleWebSocketMessage(id, ws, msg) ==
  IF msg.type = "reaction" THEN handleReaction(id, ws, msg)
  ELSE IF msg.type \in {"typing_started", "typing_stopped"} THEN handleTypingEvent(id, ws, msg)
  ELSE handleMessage(id, ws, msg)

\* ws.on('message'): the listener up to its first await.  The emitter does not
\* wait for the promise the listener returns, so the next frame of the same
\* connection is taken while earlier handlers are still suspended.
OnMessage(ws, raw) ==
  /\ running
  /\ readyState[ws] = "OPEN"
  /\ nframes < MaxFrames
  /\ nframes' = nframes + 1
  /\ LET id == nframes + 1
         message == JSONparse(raw)
     IN IF message.threw
          THEN /\ handlers' = handlers
               /\ last' = Step("rejected", id, ws, raw.text, NoMsg, SendTo(ws, InvalidFormat), {ws}, "none")
        ELSE IF message.isNull
          \* message.type throws a TypeError, which the same catch handles
          THEN /\ handlers' = handlers
               /\ last' = Step("rejected", id, ws, raw.text, NoMsg, SendTo(ws, InvalidFormat), {ws}, "none")
        ELSE handleWebSocketMessage(id, ws, message.value)
  /\ UNCHANGED <<readyState, messages, rows, version, applied, raced, store0, writer>>

\* ---------------------------------------------------- the record store ---
Suspend(h, res, data, ver) ==
  (handlers \ {h}) \cup {[h EXCEPT !.res = res, !.data = data, !.readVer = ver]}

\* supabase.from('messages').select('*').eq('id', messageId).single()
StoreSelect(h) ==
  /\ running
  /\ h \in handlers /\ h.pc = "select" /\ h.res = "pending"
  /\ \/ /\ h.msg.messageId \in StoredIds
        /\ handlers' = Suspend(h, "ok", messages[h.msg.messageId], version[h.msg.messageId])
     \/ /\ h.msg.messageId \notin StoredIds
        /\ handlers' = Suspend(h, "notfound", NullColumn, 0)
     \/ handlers' = Suspend(h, "error", NullColumn, 0)
  /\ last' = Quiet
  /\ UNCHANGED <<readyState, messages, rows, nframes, version, applied, raced, store0, writer>>

\* an update that merges into the stored column inside the store
StoreUpdate_MergeAtStore(h) ==
  /\ running
  /\ h \in handlers /\ h.pc = "update" /\ h.res = "pending"
  /\ LET m == h.msg.messageId
         p == <<h.msg.reaction, h.msg.senderId>>
     IN /\ messages' = [messages EXCEPT ![m] = Reactions(updatedReactions(@, p[1], p[2]))]
        /\ version' = [version EXCEPT ![m] = @ + 1]
        /\ applied' = [applied EXCEPT ![m][p] = @ + 1]
        /\ raced' = [raced EXCEPT ![m] = @ \/ h.readVer < version[m]]
        /\ writer' = [writer EXCEPT ![m] = h.ws]
        /\ handlers' = (handlers \ {h}) \cup {[h EXCEPT !.res = "ok", !.wrote = messages'[m], !.wroteVer = version'[m]]}
        /\ last' = [Step("store_update", h.id, h.ws, "object", h.msg, NoOut, {}, "none")
                      EXCEPT !.stale = h.readVer < version[m], !.data = h.data]
  /\ UNCHANGED <<readyState, rows, nframes, store0>>

\* supabase.from('messages').update({ reactions: updatedReactions }).eq('id', messageId)
StoreUpdate(h) ==
  /\ running
  /\ h \in handlers /\ h.pc = "update" /\ h.res = "pending"
  /\ LET m == h.msg.messageId
         p == <<h.msg.reaction, h.msg.senderId>>
     IN \/ /\ messages' = [messages EXCEPT ![m] = h.data]
           /\ version' = [version EXCEPT ![m] = @ + 1]
           /\ applied' = [applied EXCEPT ![m][p] = @ + 1]
           /\ raced' = [raced EXCEPT ![m] = @ \/ h.readVer < version[m]]
           /\ writer' = [writer EXCEPT ![m] = h.ws]
           /\ handlers' = (handlers \ {h}) \cup {[h EXCEPT !.res = "ok", !.wrote = messages'[m], !.wroteVer = version'[m]]}
           /\ last' = [Step("store_update", h.id, h.ws, "object", h.msg, NoOut, {}, "none")
                         EXCEPT !.stale = h.readVer < version[m], !.data = h.data]
        \/ /\ handlers' = Suspend(h, "error", h.data, h.readVer)
           /\ last' = Quiet
           /\ UNCHANGED <<messages, version, applied, raced, writer>>
  /\ UNCHANGED <<readyState, rows, nframes, store0>>

\* supabase.from('messages').insert([{ chat_id, author_id, content, status: 'sent' }])
StoreInsert(h) ==
  /\ running
  /\ h \in handlers /\ h.pc = "insert" /\ h.res = "pending"
  /\ \/ /\ rows' = Append(rows, [chat_id |-> h.msg.chat_id, author_id |-> h.msg.author_id,
                                 content |-> h.msg.content, status |-> "sent"])
        /\ handlers' = Suspend(h, "ok", NullColumn, 0)
     \/ /\ handlers' = Suspend(h, "error", NullColumn, 0)
        /\ UNCHANGED rows
  /\ last' = Quiet
  /\ UNCHANGED <<readyState, messages, nframes, version, applied, raced, store0, writer>>

\* ------------------------------------------------------- continuations ---
\* handleReaction from the select's result to the update (lines 145-163)
AfterSelect(h) ==
  /\ running
  /\ h \in handlers /\ h.pc = "select" /\ h.res # "pending"
  /\ IF h.res # "ok"
       THEN /\ handlers' = handlers \ {h}
            /\ last' = Resumed(h, "fetch_failed", SendTo(h.ws, FetchFailed), {h.ws}, "none")
       ELSE /\ handlers' = (handlers \ {h}) \cup
                 {[h EXCEPT !.pc = "update", !.res = "pending",
                            !.data = Reactions(updatedReactions(h.data, h.msg.reaction, h.msg.senderId))]}
            /\ last' = Resumed(h, "merged", NoOut, {}, "update")
  /\ UNCHANGED <<readyState, messages, rows, nframes, version, applied, raced, store0, writer>>

\* AfterUpdate with the sender left out of the broadcast
AfterUpdate_SkipSender(h) ==
  /\ running
  /\ h \in handlers /\ h.pc = "update" /\ h.res # "pending"
  /\ handlers' = handlers \ {h}
  /\ IF h.res # "ok"
       THEN last' = Resumed(h, "update_failed", SendTo(h.ws, UpdateFailed), {h.ws}, "none")
       ELSE last' = Resumed(h, "reaction_broadcast",
                            BroadcastOthers(h.ws, ReactionUpdate(h.msg.messageId, h.data.items)),
                            OpenClients \ {h.ws}, "none")
  /\ UNCHANGED <<readyState, messages, rows, nframes, version, applied, raced, store0, writer>>

\* AfterUpdate that reports a failed update and broadcasts all the same
AfterUpdate_BroadcastAnyway(h) ==
  /\ running
  /\ h \in handlers /\ h.pc = "update" /\ h.res # "pending"
  /\ handlers' = handlers \ {h}
  /\ last' = Resumed(h, IF h.res # "ok" THEN "update_failed" ELSE "reaction_broadcast",
                     BroadcastAll(ReactionUpdate(h.msg.messageId, h.data.items)),
                     OpenClients, "none")
  /\ UNCHANGED <<readyState, messages, rows, nframes, version, applied, raced, store0, writer>>

\* AfterUpdate that broadcasts the entry reacted with instead of the whole list
AfterUpdate_EntryOnly(h) ==
  /\ running
  /\ h \in handlers /\ h.pc = "update" /\ h.res # "pending"
  /\ handlers' = handlers \ {h}
  /\ IF h.res # "ok"
       THEN last' = Resumed(h, "update_failed", SendTo(h.ws, UpdateFailed), {h.ws}, "none")
       ELSE last' = Resumed(h, "reaction_broadcast",
                            BroadcastAll(ReactionUpdate(h.msg.messageId,
                              SelectSeq(h.data.items, LAMBDA r : r.emoji = h.msg.reaction /\ r.userId = h.msg.senderId))),
                            OpenClients, "none")
  /\ UNCHANGED <<readyState, messages, rows, nframes, version, applied, raced, store0, writer>>

\* handleReaction from the update's result to its end (lines 165-175)
AfterUpdate(h) ==
  /\ running
  /\ h \in handlers /\ h.pc = "update" /\ h.res # "pending"
  /\ handlers' = handlers \ {h}
  /\ IF h.res # "ok"
       THEN last' = Resumed(h, "update_failed", SendTo(h.ws, UpdateFailed), {h.ws}, "none")
       ELSE last' = Resumed(h, "reaction_broadcast",
                            BroadcastAll(ReactionUpdate(h.msg.messageId, h.data.items)),
                            OpenClients, "none")
  /\ UNCHANGED <<readyState, messages, rows, nframes, version, applied, raced, store0, writer>>

\* AfterInsert with the sender left out of the broadcast, and with a broadcast
\* although the insert failed
AfterInsert_NoEcho(h) ==
  /\ running
  /\ h \in handlers /\ h.pc = "insert" /\ h.res # "pending"
  /\ handlers' = handlers \ {h}
  /\ IF h.res # "ok"
       THEN last' = Resumed(h, "insert_failed", SendTo(h.ws, ProcessFailed), {h.ws}, "none")
       ELSE last' = Resumed(h, "message_broadcast", BroadcastOthers(h.ws, h.msg),
                            OpenClients \ {h.ws}, "none")
  /\ UNCHANGED <<readyState, messages, rows, nframes, version, applied, raced, store0, writer>>

AfterInsert_BroadcastAnyway(h) ==
  /\ running
  /\ h \in handlers /\ h.pc = "insert" /\ h.res # "pending"
  /\ handlers' = handlers \ {h}
  /\ last' = Resumed(h, "message_broadcast", BroadcastAll(h.msg), OpenClients, "none")
  /\ UNCHANGED <<readyState, messages, rows, nframes, version, applied, raced, store0, writer>>

\* AfterInsert with an acknowledgement to the sender ahead of the broadcast
AfterInsert_WithAck(h) ==
  /\ running
  /\ h \in handlers /\ h.pc = "insert" /\ h.res # "pending"
  /\ handlers' = handlers \ {h}
  /\ IF h.res # "ok"
       THEN last' = Resumed(h, "insert_failed", SendTo(h.ws, ProcessFailed), {h.ws}, "none")
       ELSE last' = Resumed(h, "message_broadcast",
                            [c \in Conns |-> SendTo(h.ws, [status |-> "ok"])[c] \o BroadcastAll(h.msg)[c]],
                            OpenClients, "none")
  /\ UNCHANGED <<readyState, messages, rows, nframes, version, applied, raced, store0, writer>>

\* handleMessage from the insert's result to its end (lines 188-198)
AfterInsert(h) ==
  /\ running
  /\ h \in handlers /\ h.pc = "insert" /\ h.res # "pending"
  /\ handlers' = handlers \ {h}
  /\ IF h.res # "ok"
       THEN last' = Resumed(h, "insert_failed", SendTo(h.ws, ProcessFailed), {h.ws}, "none")
       ELSE last' = Resumed(h, "message_broadcast", BroadcastAll(h.msg), OpenClients, "none")
  /\ UNCHANGED <<readyState, messages, rows, nframes, version, applied, raced, store0, writer>>

\* --------------------------------------------------------- connections ---
\* wss.on('connection'): a client completes the handshake
Connection(ws) ==
  /\ running
  /\ readyState[ws] = "NONE"
  /\ readyState' = [readyState EXCEPT ![ws] = "OPEN"]
  /\ last' = Quiet
  /\ UNCHANGED <<handlers, messages, rows, nframes, version, applied, raced, store0, writer>>

\* the peer closes or the socket fails; handlers of ws that are suspended go on
Close(ws) ==
  /\ running
  /\ readyState[ws] = "OPEN"
  /\ readyState' = [readyState EXCEPT ![ws] = "CLOSED"]
  /\ last' = Quiet
  /\ UNCHANGED <<handlers, messages, rows, nframes, version, applied, raced, store0, writer>>

Next ==
  \/ \E ws \in Conns : Connection(ws)
  \/ \E ws \in Conns : Close(ws)
  \/ \E ws \in Conns, raw \in RawFrames : OnMessage(ws, raw)
  \/ \E h \in handlers : StoreSelect(h)
  \/ \E h \in handlers : AfterSelect(h)
  \/ \E h \in handlers : StoreUpdate(h)
  \/ \E h \in handlers : AfterUpdate(h)
  \/ \E h \in handlers : StoreInsert(h)
  \/ \E h \in handlers : AfterInsert(h)

Spec == Init /\ [][Next]_vars

\* ------------------------------ the listener of src/unnamed/part_001 ---
\* The server of part_001 (path /ws) has one listener and no dispatch: every
\* frame that parses is inserted and echoed.

\* ws.on('message') of part_001 up to its await.  A frame that does not parse,
\* and the JSON text null (parsedMessage.chat_id throws), land in the catch,
\* which answers "Failed to process message".
LegacyOnMessage(ws, raw) ==
  /\ running
  /\ readyState[ws] = "OPEN"
  /\ nframes < MaxFrames
  /\ nframes' = nframes + 1
  /\ LET id == nframes + 1
         parsedMessage == JSONparse(raw)
     IN IF parsedMessage.threw \/ parsedMessage.isNull
          THEN /\ handlers' = handlers
               /\ last' = Step("rejected", id, ws, raw.text, NoMsg, SendTo(ws, ProcessFailed), {ws}, "none")
          ELSE /\ handlers' = handlers \cup {Handler(id, ws, parsedMessage.value, "insert")}
               /\ last' = Step("message", id, ws, "object", parsedMessage.value, NoOut, {}, "insert")
  /\ UNCHANGED <<readyState, messages, rows, version, applied, raced, store0, writer>>

\* supabase.from('messages').insert([{ chat_id, author_id, content }]): the row
\* is given no status
LegacyStoreInsert(h) ==
  /\ running
  /\ h \in handlers /\ h.pc = "insert" /\ h.res = "pending"
  /\ \/ /\ rows' = Append(rows, [chat_id |-> h.msg.chat_id, author_id |-> h.msg.author_id,
                                 content |-> h.msg.content, status |-> Undefined])
        /\ handlers' = Suspend(h, "ok", NullColumn, 0)
     \/ /\ handlers' = Suspend(h, "error", NullColumn, 0)
        /\ UNCHANGED rows
  /\ last' = Quiet
  /\ UNCHANGED <<readyState, messages, nframes, version, applied, raced, store0, writer>>

\* the listener of part_001 after the insert: an error is thrown into the
\* catch, which answers the sender; otherwise the text received goes to every
\* open client
LegacyAfterInsert(h) ==
  /\ running
  /\ h \in handlers /\ h.pc = "insert" /\ h.res # "pending"
  /\ handlers' = handlers \ {h}
  /\ IF h.res # "ok"
       THEN last' = Resumed(h, "insert_failed", SendTo(h.ws, ProcessFailed), {h.ws}, "none")
       ELSE last' = Resumed(h, "message_broadcast", BroadcastAll(h.msg), OpenClients, "none")
  /\ UNCHANGED <<readyState, messages, rows, nframes, version, applied, raced, store0, writer>>

LegacyNext ==
  \/ \E ws \in Conns : Connection(ws)
  \/ \E ws \in Conns : Close(ws)
  \/ \E ws \in Conns, raw \in RawFrames : LegacyOnMessage(ws, raw)
  \/ \E h \in handlers : LegacyStoreInsert(h)
  \/ \E h \in handlers : LegacyAfterInsert(h)

Legacy == Init /\ [][LegacyNext]_vars

\* ------------------------------------------------------------ properties --
Range(f) == {f[i] : i \in DOMAIN f}

\* the step just taken received a frame / resumed a handler after an await
Received == last.text # "none" /\ last.at = "none" /\ last.op # "store_update"
ResumedAt(pc, res) == last.at = pc /\ last.res = res

IsTyping(msg) == msg.type \in {"typing_started", "typing_stopped"}

InFlight(id) == \E h \in handlers : h.id = id

\* exactly the connections in S were sent exactly the frame f, the others nothing
SentExactly(S, f) == \A c \in Conns : last.out[c] = IF c \in S THEN <<f>> ELSE <<>>

\* the step received a typing frame whose senderId and chat_id pass the test
\* of line 116
C1_Relayed ==
  /\ Received /\ IsTyping(last.msg)
  /\ ~Falsy(last.msg.senderId) /\ ~Falsy(last.msg.chat_id)

\* C1: a typing_started / typing_stopped frame that carries senderId and
\* chat_id (both truthy, as the code tests them) is relayed as
\* {type, senderId, chat_id} to every connection open at that moment other
\* than the one it came from, and the sender is sent nothing.
C1_TypingExclusion ==
  C1_Relayed =>
    /\ last.out[last.ws] = <<>>
    /\ SentExactly(last.clients \ {last.ws}, TypingFrame(last.msg))
    /\ last.ws \notin last.calls

C1_Witness ==
  /\ C1_Relayed
  /\ last.clients = Conns
  /\ \E c \in Conns \ {last.ws} : last.out[c] = <<TypingFrame(last.msg)>>

\* C2: when the insert of a chat (default-kind) frame succeeded, the frame as
\* received is sent to every connection open at that moment, the sender
\* included, and to no other.
C2_ChatEchoInclusion ==
  ResumedAt("insert", "ok") =>
    /\ SentExactly(last.clients, last.msg)
    /\ (last.ws \in last.clients => last.out[last.ws] = <<last.msg>>)

C2_Witness ==
  /\ ResumedAt("insert", "ok")
  /\ last.clients = Conns
  /\ \A c \in Conns : last.out[c] = <<last.msg>>
  /\ Len(rows) > 0

\* C3 as stated: text that is no JSON gets the sender one "Invalid message
\* format" frame, the others nothing, and no store request; and that frame is
\* sent only when parsing failed.
C3_ParseFailureIsolated ==
  (Received /\ last.text = "garbage") =>
    /\ SentExactly({last.ws}, InvalidFormat)
    /\ last.request = "none"
    /\ ~InFlight(last.id)
    /\ messages = last.before

C3_OnlyOnParseFailure ==
  /\ C3_ParseFailureIsolated
  /\ \A c \in Conns : InvalidFormat \in Range(last.out[c]) => last.text = "garbage"

\* C3 amended: the first half as stated; the "Invalid message format" frame is
\* sent exactly when the try block of the listener threw: on text that is no
\* JSON, and on the JSON text null, which parses but whose .type cannot be read.
C3_MalformedFrameIsolation ==
  /\ C3_ParseFailureIsolated
  /\ \A c \in Conns : InvalidFormat \in Range(last.out[c]) =>
        /\ Received /\ last.text \in {"garbage", "null"} /\ c = last.ws
  /\ (Received /\ last.text = "null") =>
        SentExactly({last.ws}, InvalidFormat) /\ last.request = "none"

C3_Witness ==
  /\ Received /\ last.text = "garbage"
  /\ last.out[last.ws] = <<InvalidFormat>>
  /\ last.clients = Conns
  /\ handlers # {}

\* C4: when the insert of a chat frame failed, send() is called once, on the
\* sender, with the "Failed to process message" frame (which reaches it if it
\* is still open); no other connection is sent anything; no further store
\* request is issued and the handler is over.
C4_StoreFailureContainment ==
  ResumedAt("insert", "error") =>
    /\ last.calls = {last.ws}
    /\ SentExactly({last.ws} \cap last.clients, ProcessFailed)
    /\ last.request = "none"
    /\ ~InFlight(last.id)

C4_Witness ==
  /\ ResumedAt("insert", "error")
  /\ last.clients = Conns
  /\ last.out[last.ws] = <<ProcessFailed>>
  /\ rows = <<>>

NoDuplicates(rs) ==
  \A i, j \in 1..Len(rs) :
    (rs[i].emoji = rs[j].emoji /\ rs[i].userId = rs[j].userId) => i = j

\* C5: in every reachable state, whatever the interleaving of reaction
\* handlers, every stored reactions list holds at most one entry per
\* (emoji, userId) pair (the initial lists hold none twice).
C5_ReactionListInvariant == \A m \in StoredIds : NoDuplicates(OrEmpty(messages[m]))

C5_Witness ==
  /\ raced["m1"]
  /\ version["m1"] = 2
  /\ \E p \in FramePairs : applied["m1"][p] = 2


\* the entries of a list for the pair p, the count stored for p, the sum of counts
EntriesOf(rs, p) == {i \in 1..Len(rs) : rs[i].emoji = p[1] /\ rs[i].userId = p[2]}
CountOf(rs, p) == IF EntriesOf(rs, p) = {} THEN 0 ELSE rs[CHOOSE i \in EntriesOf(rs, p) : TRUE].count
RECURSIVE Total(_)
Total(rs) == IF rs = <<>> THEN 0 ELSE Head(rs).count + Total(Tail(rs))

Stored(m) == OrEmpty(messages[m])
Stored0(m) == OrEmpty(store0[m])

\* C6 as stated: two successful reactions of the same (emoji, userId) on a
\* message leave one entry for the pair, its count the prior count plus 2.
C6_TwiceCountsTwo ==
  \A m \in StoredIds, p \in FramePairs :
    applied[m][p] = 2 =>
      /\ Cardinality(EntriesOf(Stored(m), p)) = 1
      /\ CountOf(Stored(m), p) = CountOf(Stored0(m), p) + 2

\* C6 amended: the same, provided no update of the message was written from a
\* list fetched before an earlier update of it (the handlers did not overlap
\* between fetch and update).
C6_TwiceCountsTwoUnraced ==
  \A m \in StoredIds, p \in FramePairs :
    (applied[m][p] = 2 /\ ~raced[m]) =>
      /\ Cardinality(EntriesOf(Stored(m), p)) = 1
      /\ CountOf(Stored(m), p) = CountOf(Stored0(m), p) + 2

C6_Witness ==
  /\ applied["m1"][<<"up", "u1">>] = 2 /\ ~raced["m1"]
  /\ store0["m1"] = NullColumn
  /\ messages["m1"] = Reactions(<<Entry("up", "u1", 2)>>)

\* a successful update was just written for a pair the stored list did not hold
WroteUpdate == last.op = "store_update"
WrittenRow == last.msg.messageId
WrittenPair == <<last.msg.reaction, last.msg.senderId>>
C7_FreshPair == WroteUpdate /\ EntriesOf(OrEmpty(last.before[WrittenRow]), WrittenPair) = {}

OthersUnchanged == \A m \in StoredIds \ {WrittenRow} : messages[m] = last.before[m]

Appended ==
  messages[WrittenRow] =
    Reactions(Append(OrEmpty(last.before[WrittenRow]), Entry(WrittenPair[1], WrittenPair[2], 1)))

\* C7 as stated: a successful reaction for a pair the message does not hold
\* appends an entry with count 1, leaves the existing entries as they are and
\* leaves every other message alone.
C7_AlwaysAppends == C7_FreshPair => (Appended /\ OthersUnchanged)

\* C7 amended: it does so when the list its handler fetched was still the
\* stored one at the update; every reaction update leaves the other messages
\* unchanged.
C7_ReactionIsolation ==
  /\ (C7_FreshPair /\ ~last.stale) => Appended
  /\ WroteUpdate => OthersUnchanged

C7_Witness ==
  /\ C7_FreshPair /\ ~last.stale
  /\ last.before["m1"] = Reactions(<<Entry("up", "u1", 1)>>)
  /\ messages["m1"] = Reactions(<<Entry("up", "u1", 1), Entry("up", "u2", 1)>>)
  /\ messages["m2"] = store0["m2"]

\* C8: after a successful update the frame {type: "reactionUpdate", messageId,
\* reactions}, reactions being the list the store wrote for this handler, is
\* sent to every connection open at that moment, the sender included.
C8_ReactionBroadcast ==
  ResumedAt("update", "ok") =>
    /\ ~last.data.null
    /\ SentExactly(last.clients, ReactionUpdate(last.msg.messageId, last.data.items))
    /\ (last.ws \in last.clients =>
          last.out[last.ws] = <<ReactionUpdate(last.msg.messageId, last.data.items)>>)

C8_Witness ==
  /\ ResumedAt("update", "ok")
  /\ last.clients = Conns /\ store0["m1"] = NullColumn
  /\ last.msg = Msg("reaction", "m1", "up", "u1", Undefined, Undefined, Undefined)
  /\ \A c \in Conns :
       last.out[c] = <<ReactionUpdate("m1", <<Entry("up", "u1", 1)>>)>>

\* C9 as stated: no two handlers of one connection are in flight together
C9_PerConnectionSerial ==
  \A h1, h2 \in handlers : h1.ws = h2.ws => h1 = h2

AwaitsStore(h) ==
  \/ h.msg.type = "reaction" /\ ~Falsy(h.msg.messageId) /\ h.pc \in {"select", "update"}
  \/ h.msg.type # "reaction" /\ ~IsTyping(h.msg) /\ h.pc = "insert"

\* C9 amended: a handler is in flight only while it awaits the store (a
\* reaction with a messageId at its select or update, a chat frame at its
\* insert); a frame handled without an await is over within the step that
\* received it.  Handlers awaiting the store do not hold back later frames
\* (C9_Witness: two handlers of one connection in flight together).
C9_SuspendedOnlyAtStore ==
  /\ \A h \in handlers : AwaitsStore(h)
  /\ (Received /\ last.request = "none") => ~InFlight(last.id)
  /\ (Received /\ last.request # "none") => InFlight(last.id)

C9_Witness ==
  \E h1, h2 \in handlers :
    /\ h1.id < h2.id /\ h1.ws = h2.ws
    /\ h1.res = "pending" /\ h2.res = "pending"
    /\ h1.msg.type = "reaction" /\ h2.msg.type = "reaction"

\* C10: whenever an update is written whose handler fetched the row before
\* another update of it was written, the store then holds exactly that
\* handler's list (the later write wins) and the counts stored for the row sum
\* to less than the initial sum plus the number of successful updates.
C10_LostUpdate ==
  (WroteUpdate /\ last.stale) =>
    /\ messages[WrittenRow] = last.data
    /\ Total(Stored(WrittenRow)) < Total(Stored0(WrittenRow)) + version[WrittenRow]

\* two handlers of two connections fetched the initial list of m1, both
\* updates succeeded, both broadcasts are due, and the store holds one effect
C10_Witness ==
  /\ WroteUpdate /\ last.stale /\ WrittenRow = "m1" /\ version["m1"] = 2
  /\ \E h1, h2 \in handlers :
       /\ h1.id = last.id /\ h2.ws # h1.ws
       /\ h1.pc = "update" /\ h2.pc = "update" /\ h1.res = "ok" /\ h2.res = "ok"
       /\ h1.readVer = 0 /\ h2.readVer = 0
       /\ h2.msg.messageId = "m1"
       /\ messages["m1"] = h1.data /\ messages["m1"] # h2.data
  /\ Total(Stored("m1")) = Total(Stored0("m1")) + 1

\* the step sent (or tried to send) an error reply
ErrorOps == {"rejected", "typing_rejected", "reaction_rejected", "fetch_failed",
             "update_failed", "insert_failed"}
Faulted == last.op \in ErrorOps

\* C11: the process stays alive in every reachable state, so it keeps taking
\* frames; a step that answers a malformed frame or a store failure, also one
\* whose sender closed while its frame was handled, closes no connection and
\* sends nothing to any connection but the sender; and no step ever sends an
\* error frame to a connection other than the one whose frame it handles.
C11_ErrorIsolation ==
  /\ running
  /\ Faulted =>
       /\ OpenClients = last.clients
       /\ \A c \in Conns \ {last.ws} : last.out[c] = <<>>
       /\ last.calls = {last.ws}
  /\ \A c \in Conns : \A f \in Range(last.out[c]) : IsError(f) => (c = last.ws /\ Faulted)

\* a store failure is answered on a sender that closed during the await, while
\* another connection is open and has a handler of its own in flight
C11_Witness ==
  /\ Faulted /\ last.at # "none" /\ last.res = "error"
  /\ readyState[last.ws] = "CLOSED"
  /\ running
  /\ \E c \in OpenClients : \E h \in handlers : h.ws = c /\ c # last.ws

\* C12: send() is called only on connections that are open at that moment,
\* error replies included, and a broadcast reaches exactly the connections
\* open at that moment.
C12_GuardedSends ==
  /\ last.calls \subseteq last.clients
  /\ \A c \in Conns : last.out[c] # <<>> => c \in last.clients
  /\ last.op \in {"message_broadcast", "reaction_broadcast"} =>
        \A c \in Conns : (last.out[c] # <<>>) <=> (c \in last.clients)

\* C13: a connection is sent at most one frame per step and a handler sends
\* only in its last step, so what the sender gets for a frame is what that
\* step sends it: nothing for a relayed typing frame, the echo alone after a
\* successful insert, the reactionUpdate alone after a successful update (one
\* frame when the sender is still open), and an error frame only from a step
\* that broadcasts nothing.
C13_NoSeparateAck ==
  /\ \A c \in Conns : Len(last.out[c]) <= 1
  /\ (last.calls # {} \/ \E c \in Conns : last.out[c] # <<>>) => ~InFlight(last.id)
  /\ C1_Relayed => last.out[last.ws] = <<>>
  /\ ResumedAt("insert", "ok") =>
        last.out[last.ws] = IF last.ws \in last.clients THEN <<last.msg>> ELSE <<>>
  /\ ResumedAt("update", "ok") =>
        last.out[last.ws] = IF last.ws \in last.clients
                              THEN <<ReactionUpdate(last.msg.messageId, last.data.items)>> ELSE <<>>
  /\ \A c \in Conns : \A f \in Range(last.out[c]) : IsError(f) <=> Faulted

C13_Witness ==
  /\ ResumedAt("insert", "ok")
  /\ readyState[last.ws] = "OPEN"
  /\ last.out[last.ws] = <<last.msg>>
  /\ last.msg.type = Undefined
  /\ nframes = 2

\* a chat frame: an outbound frame that is an inbound message echoed
IsEcho(f) == "content" \in DOMAIN f

RowOf(msg, status) ==
  [chat_id |-> msg.chat_id, author_id |-> msg.author_id, content |-> msg.content, status |-> status]

\* C14: a chat frame is sent to a connection only by the step that resumes its
\* handler after a successful insert, and then the table holds a row with the
\* frame's chat_id, author_id and content and status "sent".
C14_PersistBeforeEcho ==
  \A c \in Conns : \A f \in Range(last.out[c]) :
    IsEcho(f) =>
      /\ ResumedAt("insert", "ok") /\ f = last.msg
      /\ \E i \in 1..Len(rows) : rows[i] = RowOf(f, "sent")

\* the step's only send is the error reply f to the sender (which it gets if it
\* is still open), it issues no store request, ends the handler and leaves the
\* reactions columns as they were; the store wrote nothing for the handler
RepliedAndStopped(f) ==
  /\ last.calls = {last.ws}
  /\ SentExactly({last.ws} \cap last.clients, f)
  /\ last.request = "none"
  /\ ~InFlight(last.id)
  /\ messages = last.before
  /\ last.data = NullColumn

\* C15: a reaction frame without messageId is answered in the step that
\* received it, before any store request; a select that failed or found no row
\* is answered without an update being issued; a failed update is answered
\* without a broadcast.  In all three the sender alone is sent one error frame
\* and the handler has written nothing.
C15_ReactionFailurePaths ==
  /\ (Received /\ last.msg.type = "reaction" /\ Falsy(last.msg.messageId)) =>
        RepliedAndStopped(IdRequired) /\ last.out[last.ws] = <<IdRequired>>
  /\ (last.at = "select" /\ last.res # "ok") => RepliedAndStopped(FetchFailed)
  /\ ResumedAt("update", "error") => RepliedAndStopped(UpdateFailed)

C15_Witness ==
  /\ ResumedAt("update", "error")
  /\ last.clients = Conns
  /\ last.out[last.ws] = <<UpdateFailed>>
  /\ messages = store0

\* every row of the table came from a frame of the default kind
RowsAreChat == \A i \in 1..Len(rows) : \E m \in ChatMsgs : rows[i] = RowOf(m, "sent")

\* C16: the step that receives a typing frame, relayed or rejected, issues no
\* store request, leaves no handler behind and leaves the reactions columns
\* as they were, and no row of the table ever comes from a typing frame; a
\* typing frame whose senderId or chat_id is missing gets the sender exactly
\* one error frame and no other connection anything.
C16_TypingNeverStores ==
  /\ RowsAreChat
  /\ (Received /\ IsTyping(last.msg)) =>
        /\ last.request = "none" /\ ~InFlight(last.id)
        /\ messages = last.before
        /\ (Falsy(last.msg.senderId) \/ Falsy(last.msg.chat_id)) =>
              (SentExactly({last.ws}, TypingRequired) /\ last.calls = {last.ws})

C16_Witness ==
  /\ Received /\ IsTyping(last.msg) /\ Falsy(last.msg.chat_id)
  /\ last.out[last.ws] = <<TypingRequired>>
  /\ last.clients = Conns
  /\ Len(rows) = 1

RanReaction == last.op \in {"reaction", "reaction_rejected"}
RanTyping   == last.op \in {"typing", "typing_rejected"}
RanMessage  == last.op = "message" /\ last.request = "insert" /\ InFlight(last.id)

\* the handler the frame's type selects ran, and neither of the other two
Dispatched ==
  /\ RanReaction <=> last.msg.type = "reaction"
  /\ RanTyping <=> IsTyping(last.msg)
  /\ RanMessage <=> (last.msg.type # "reaction" /\ ~IsTyping(last.msg))

\* C17 as stated: every frame that parses, the JSON text null included, runs
\* exactly one of the three handlers, the one its type selects.
C17_EveryParsedFrame ==
  (Received /\ last.text \in {"object", "null"}) => Dispatched

\* C17 amended: every frame that parses to an object runs exactly one of the
\* three handlers: handleReaction for type "reaction", handleTypingEvent for
\* "typing_started" / "typing_stopped", handleMessage (an insert request) for
\* any other or an absent type; only frames handleMessage took are ever
\* inserted and echoed.  The JSON text null parses but runs none of them: it
\* is answered "Invalid message format".
C17_DispatchTotalExclusive ==
  /\ (Received /\ last.text = "object") => Dispatched
  /\ (Received /\ last.text = "null") =>
        (~RanReaction /\ ~RanTyping /\ ~RanMessage /\ last.op = "rejected")
  /\ \A h \in handlers :
        (h.pc = "insert") <=> (h.msg.type # "reaction" /\ ~IsTyping(h.msg))
  /\ last.op = "message_broadcast" => (last.msg.type # "reaction" /\ ~IsTyping(last.msg))

C17_Witness ==
  /\ Received /\ last.text = "object" /\ last.msg.type = Undefined
  /\ RanMessage
  /\ \E h \in handlers : h.id # last.id /\ h.msg.type = "reaction"

\* a reactionUpdate was just delivered to some connection and no reaction
\* handler of its message is in flight any more: it is the last one delivered
LastUpdateDelivered ==
  /\ last.op = "reaction_broadcast"
  /\ \E c \in Conns : last.out[c] # <<>>
  /\ \A h \in handlers : h.msg.type = "reaction" => h.msg.messageId # last.msg.messageId

CarriesStored ==
  \A c \in Conns :
    last.out[c] # <<>> => last.out[c] = <<ReactionUpdate(last.msg.messageId, Stored(last.msg.messageId))>>

\* C18 as stated: once the reaction handlers of a message are over, the last
\* reactionUpdate delivered for it carries the list the store holds, also when
\* the update written last came from another connection than that broadcast.
C18_ClientsConverge ==
  (LastUpdateDelivered /\ writer[last.msg.messageId] # last.ws) => CarriesStored

\* C18 amended: it does when the handler that broadcasts last is the one whose
\* update the store wrote last (broadcasts in the order of the writes).
C18_ConvergeInWriteOrder ==
  (LastUpdateDelivered /\ last.wroteVer = version[last.msg.messageId]) => CarriesStored

C18_Witness ==
  /\ LastUpdateDelivered /\ last.wroteVer = 2 /\ version["m1"] = 2
  /\ last.msg.messageId = "m1"
  /\ last.clients = Conns
  /\ Len(Stored("m1")) = 2
  /\ CarriesStored

\* every entry the row held before the write is still there, its count no lower
Grown ==
  LET old == OrEmpty(last.before[WrittenRow])
  IN \A i \in 1..Len(old) :
       CountOf(Stored(WrittenRow), <<old[i].emoji, old[i].userId>>) >= old[i].count

\* C19 as stated: no write of a reactions list removes an entry the row held
\* or lowers the count of one.
C19_OnlyGrows == WroteUpdate => Grown

\* C19 amended: so it is for every write whose handler fetched the list the
\* row still held when the write was made; a write based on a list fetched
\* before another update replaces the row with that older list plus its own
\* effect and can remove an entry or lower a count.
C19_GrowsUnlessOverwritten == (WroteUpdate /\ ~last.stale) => Grown

C19_Witness ==
  /\ WroteUpdate /\ ~last.stale /\ WrittenRow = "m1" /\ version["m1"] = 2
  /\ Len(OrEmpty(last.before["m1"])) = 2
  /\ \E p \in FramePairs :
       CountOf(Stored("m1"), p) = CountOf(OrEmpty(last.before["m1"]), p) + 1
  /\ Grown

====
